---- MODULE Spec2Model ----
(***************************************************************************)
(* The nsstring! macro of fruity (src/foundation/nsstring/macros.rs): the  *)
(* compile-time pipeline that turns a &'static str into a constant string  *)
(* descriptor placed in the __DATA,__cfstring section.                     *)
(*                                                                         *)
(* A Rust str is modelled as the sequence of its Unicode scalar values; its*)
(* bytes are the UTF-8 encoding of that sequence.  A pointer is modelled by*)
(* what it refers to (an array) or by an index into the section it points  *)
(* into.  An out-of-bounds index during const evaluation ends the          *)
(* compilation: pc = "compile_error".                                      *)
(***************************************************************************)
EXTENDS Integers, Sequences

\* Longest string literal (in chars) handed to the macro.
MaxLen == 3

\* The chars a literal is drawn from, the first and the last of each UTF-8
\* length among them: NUL, 'a', DEL; U+0080, U+00E4, U+07FF; U+0800, U+FFFD,
\* U+FFFF; U+10000, U+1F980 (the crab of the tests), U+10FFFF.
Scalars == {0, 97, 127, 128, 228, 2047, 2048, 65533, 65535, 65536, 129408,
            1114111}

\* All strings of at most n chars.
StrUpTo(n) == UNION {[1..k -> Scalars] : k \in 0..n}

----------------------------------------------------------------------------
(* Helpers of the crate's private cfstring module, used by the macro.      *)

\* UTF-8 bytes of one scalar value (the representation of a Rust str).
Utf8Char(c) ==
    IF c < 128 THEN <<c>>
    ELSE IF c < 2048 THEN <<192 + (c \div 64), 128 + (c % 64)>>
    ELSE IF c < 65536 THEN
        <<224 + (c \div 4096), 128 + ((c \div 64) % 64), 128 + (c % 64)>>
    ELSE <<240 + (c \div 262144), 128 + ((c \div 4096) % 64),
           128 + ((c \div 64) % 64), 128 + (c % 64)>>

RECURSIVE as_bytes(_)
\* str::as_bytes: the UTF-8 bytes of a str.
as_bytes(str) ==
    IF str = <<>> THEN <<>>
    ELSE Utf8Char(Head(str)) \o as_bytes(Tail(str))

\* cfstring::trim_trailing_nul: the bytes of the str without one trailing 0.
trim_trailing_nul(str) ==
    LET b == as_bytes(str) IN
    IF Len(b) > 0 /\ b[Len(b)] = 0 THEN SubSeq(b, 1, Len(b) - 1) ELSE b

\* cfstring::is_ascii: every byte is in 0..127.
is_ascii(bytes) == \A i \in 1..Len(bytes) : bytes[i] < 128

\* utf16::EncodeUtf16Iter::new: the iterator holds the bytes left to decode.
EncodeUtf16Iter_new(bytes) == bytes

\* Decoding of the next scalar from UTF-8: [ch, n] with n the bytes taken.
next_code_point(bytes) ==
    LET x == bytes[1] IN
    IF x < 128 THEN [ch |-> x, n |-> 1]
    ELSE LET init == x % 32
             y    == bytes[2] % 64
         IN IF x < 224 THEN [ch |-> init * 64 + y, n |-> 2]
            ELSE LET z   == bytes[3] % 64
                     y_z == y * 64 + z
                 IN IF x < 240 THEN [ch |-> (init % 16) * 4096 + y_z, n |-> 3]
                    ELSE LET w == bytes[4] % 64
                         IN [ch |-> (init % 8) * 262144 + y_z * 64 + w,
                             n |-> 4]

\* Utf16Char of one scalar: one unit, or a high and a low surrogate.
Utf16Char_encode(ch) ==
    IF ch <= 65535 THEN [repr |-> <<ch % 65536, 0>>, len |-> 1]
    ELSE LET payload == ch - 65536
         IN [repr |-> <<(55296 + (payload \div 1024)) % 65536,
                        (56320 + (payload % 1024)) % 65536>>,
             len |-> 2]

\* EncodeUtf16Iter::next: None at the end, else the next state and the units.
EncodeUtf16Iter_next(it) ==
    IF it = <<>> THEN [some |-> FALSE, state |-> <<>>,
                       chars |-> [repr |-> <<0, 0>>, len |-> 0]]
    ELSE LET cp == next_code_point(it)
         IN [some |-> TRUE,
             state |-> SubSeq(it, cp.n + 1, Len(it)),
             chars |-> Utf16Char_encode(cp.ch)]

\* The class reference every constant string starts with.
CFConstantStringClassReference == "__CFConstantStringClassReference"

\* CFStringAscii::new(isa, data, len).
CFStringAscii_new(isa, data, len) ==
    [variant |-> "Ascii", isa |-> isa, data |-> data, length |-> len]

\* CFStringUtf16::new(isa, data, len).
CFStringUtf16_new(isa, data, len) ==
    [variant |-> "Utf16", isa |-> isa, data |-> data, length |-> len]

----------------------------------------------------------------------------
(* The macro's own const items and expressions.                            *)

\* Mutant of INPUT_init: the trailing NUL is kept.
INPUT_init_NoTrim(str) == as_bytes(str)

\* Mutant of INPUT_init: a second trailing NUL is removed as well.
INPUT_init_TrimTwice(str) ==
    LET b == trim_trailing_nul(str) IN
    IF Len(b) > 0 /\ b[Len(b)] = 0 THEN SubSeq(b, 1, Len(b) - 1) ELSE b

\* const INPUT: the argument with a trailing NUL removed.
INPUT_init(str) == trim_trailing_nul(str)

\* Mutant of ascii_branch: the two branches are swapped.
ascii_branch_Swapped(input) == ~is_ascii(input)

\* The condition of the macro's if: TRUE takes the Ascii branch.
ascii_branch(input) == is_ascii(input)

\* Mutant of out_init: the buffer is sized in 16-bit units of the input.
out_init_Half(input) == [i \in 1..(Len(input) \div 2) |-> 0]

\* let mut out = [0u16; INPUT.len()].
out_init(input) == [i \in 1..Len(input) |-> 0]

\* Mutant of loop_body: the first unit is written in both places.
loop_body_SameUnit(chars, o, w) ==
    IF w >= Len(o) THEN [ok |-> FALSE, out |-> o, written |-> w]
    ELSE LET o1 == [o EXCEPT ![w + 1] = chars.repr[1]]
             w1 == w + 1
         IN IF chars.len > 1
            THEN IF w1 >= Len(o) THEN [ok |-> FALSE, out |-> o1, written |-> w1]
                 ELSE [ok |-> TRUE,
                       out |-> [o1 EXCEPT ![w1 + 1] = chars.repr[1]],
                       written |-> w1 + 1]
            ELSE [ok |-> TRUE, out |-> o1, written |-> w1]

\* Mutant of loop_body: the two units of a pair are written low first.
loop_body_LowFirst(chars, o, w) ==
    IF w >= Len(o) THEN [ok |-> FALSE, out |-> o, written |-> w]
    ELSE IF chars.len > 1
         THEN IF w + 1 >= Len(o)
              THEN [ok |-> FALSE, out |-> o, written |-> w + 1]
              ELSE [ok |-> TRUE,
                    out |-> [o EXCEPT ![w + 1] = chars.repr[2],
                                      ![w + 2] = chars.repr[1]],
                    written |-> w + 2]
         ELSE [ok |-> TRUE, out |-> [o EXCEPT ![w + 1] = chars.repr[1]],
               written |-> w + 1]

\* Mutant of loop_body: the second unit of a pair is never written.
loop_body_FirstOnly(chars, o, w) ==
    IF w >= Len(o) THEN [ok |-> FALSE, out |-> o, written |-> w]
    ELSE [ok |-> TRUE, out |-> [o EXCEPT ![w + 1] = chars.repr[1]],
          written |-> w + 1]

\* One pass through the body of the while-let loop, given what iter.next()
\* returned: out[written] = chars.repr[0]; written += 1; and, when
\* chars.len > 1, out[written] = chars.repr[1]; written += 1.  Indices of out
\* are 0-based in the source and 1-based here.  ok is FALSE when an index is
\* out of bounds, which stops const evaluation.
loop_body(chars, o, w) ==
    IF w >= Len(o) THEN [ok |-> FALSE, out |-> o, written |-> w]
    ELSE LET o1 == [o EXCEPT ![w + 1] = chars.repr[1]]
             w1 == w + 1
         IN IF chars.len > 1
            THEN IF w1 >= Len(o) THEN [ok |-> FALSE, out |-> o1, written |-> w1]
                 ELSE [ok |-> TRUE,
                       out |-> [o1 EXCEPT ![w1 + 1] = chars.repr[2]],
                       written |-> w1 + 1]
            ELSE [ok |-> TRUE, out |-> o1, written |-> w1]

\* Mutant of ASCII_ARRAY: the nul field is left out.
ASCII_ARRAY_NoNul(input) == input

\* ASCII_ARRAY: struct Ascii { data: [u8; INPUT.len()], nul: 0 } seen as an
\* array of INPUT.len() + 1 bytes.
ASCII_ARRAY(input) == input \o <<0>>

\* UTF16_ARRAY: struct Utf16 { data: [u16; UTF16_FULL.1], nul: 0 }, its data
\* read from the start of UTF16_FULL.0, seen as an array of UTF16_FULL.1 + 1
\* units.
UTF16_ARRAY(o, w) == SubSeq(o, 1, w) \o <<0>>

\* Mutant of ascii_len: the length counts the trailing null.
ascii_len_WithNul(input) == Len(input) + 1

\* The length handed to CFStringAscii::new.
ascii_len(input) == Len(input)

\* The length handed to CFStringUtf16::new.
utf16_len(o, w) == w

RECURSIVE UTF16_FULL(_, _, _)
\* const UTF16_FULL as a value: the loop run from (iter, out, written) to its
\* end; ok is FALSE when const evaluation stopped on an index out of bounds.
UTF16_FULL(it, o, w) ==
    LET nxt == EncodeUtf16Iter_next(it) IN
    IF ~nxt.some THEN [ok |-> TRUE, out |-> o, written |-> w]
    ELSE LET r == loop_body(nxt.chars, o, w)
         IN IF r.ok THEN UTF16_FULL(nxt.state, r.out, r.written) ELSE r

\* The value of a descriptor that is not built yet.
NoCFString == [variant |-> "none", isa |-> "", data |-> <<>>, length |-> 0]

\* The static CFSTRING one expansion of the macro defines for the argument
\* str (NoCFString when the expansion does not compile).
cfstring_of(str) ==
    LET input == INPUT_init(str) IN
    IF ascii_branch(input)
    THEN CFStringAscii_new(CFConstantStringClassReference,
                           ASCII_ARRAY(input), ascii_len(input))
    ELSE LET full == UTF16_FULL(EncodeUtf16Iter_new(input), out_init(input), 0)
         IN IF full.ok
            THEN CFStringUtf16_new(CFConstantStringClassReference,
                                   UTF16_ARRAY(full.out, full.written),
                                   utf16_len(full.out, full.written))
            ELSE NoCFString

VARIABLES
    s,            \* the macro's argument $s
    pc,           \* the item or expression evaluated next
    INPUT,        \* const INPUT
    out,          \* UTF16_FULL: the buffer being filled
    iter,         \* UTF16_FULL: the EncodeUtf16Iter
    written,      \* UTF16_FULL: the count of units written
    array,        \* ASCII_ARRAY or UTF16_ARRAY
    CFSTRING,     \* the initializer's value of static CFSTRING
    section,      \* the statics emitted into __DATA,__cfstring,regular
    cfstring_ptr, \* let cfstring_ptr (0: unset, else the place in section)
    nsstring      \* the NSString the macro evaluates to (0: unset)

vars == <<s, pc, INPUT, out, iter, written, array, CFSTRING, section,
          cfstring_ptr, nsstring>>

Init ==
    /\ s \in StrUpTo(MaxLen)
    /\ pc = "trim_trailing_nul"
    /\ INPUT = <<>>
    /\ out = <<>>
    /\ iter = <<>>
    /\ written = 0
    /\ array = <<>>
    /\ CFSTRING = NoCFString
    /\ section = <<>>
    /\ cfstring_ptr = 0
    /\ nsstring = 0

\* const INPUT: &[u8] = trim_trailing_nul($s);
Trim ==
    /\ pc = "trim_trailing_nul"
    /\ INPUT' = INPUT_init(s)
    /\ pc' = "is_ascii"
    /\ UNCHANGED <<s, out, iter, written, array, CFSTRING, section,
                   cfstring_ptr, nsstring>>

\* if is_ascii(INPUT) { ... } else { ... }: the else branch starts
\* UTF16_FULL with its three locals.
Classify ==
    /\ pc = "is_ascii"
    /\ IF ascii_branch(INPUT)
       THEN /\ pc' = "ASCII_ARRAY"
            /\ UNCHANGED <<out, iter, written>>
       ELSE /\ pc' = "UTF16_FULL"
            /\ out' = out_init(INPUT)
            /\ iter' = EncodeUtf16Iter_new(INPUT)
            /\ written' = 0
    /\ UNCHANGED <<s, INPUT, array, CFSTRING, section, cfstring_ptr, nsstring>>

\* while let Some((state, chars)) = iter.next() { iter = state; ... }
Utf16Loop ==
    /\ pc = "UTF16_FULL"
    /\ LET nxt == EncodeUtf16Iter_next(iter) IN
       /\ nxt.some
       /\ LET r == loop_body(nxt.chars, out, written) IN
          /\ iter' = nxt.state
          /\ out' = r.out
          /\ written' = r.written
          /\ pc' = IF r.ok THEN "UTF16_FULL" ELSE "compile_error"
    /\ UNCHANGED <<s, INPUT, array, CFSTRING, section, cfstring_ptr, nsstring>>

\* The loop ends when iter.next() is None: UTF16_FULL = (&{ out }, written).
Utf16LoopExit ==
    /\ pc = "UTF16_FULL"
    /\ ~EncodeUtf16Iter_next(iter).some
    /\ pc' = "UTF16_ARRAY"
    /\ UNCHANGED <<s, INPUT, out, iter, written, array, CFSTRING, section,
                   cfstring_ptr, nsstring>>

\* const ASCII and const ASCII_ARRAY.
AsciiArray ==
    /\ pc = "ASCII_ARRAY"
    /\ array' = ASCII_ARRAY(INPUT)
    /\ pc' = "CFStringAscii_new"
    /\ UNCHANGED <<s, INPUT, out, iter, written, CFSTRING, section,
                   cfstring_ptr, nsstring>>

\* const UTF16 and const UTF16_ARRAY.
Utf16Array ==
    /\ pc = "UTF16_ARRAY"
    /\ array' = UTF16_ARRAY(out, written)
    /\ pc' = "CFStringUtf16_new"
    /\ UNCHANGED <<s, INPUT, out, iter, written, CFSTRING, section,
                   cfstring_ptr, nsstring>>

\* The initializer of static CFSTRING in the Ascii branch.
NewAscii ==
    /\ pc = "CFStringAscii_new"
    /\ CFSTRING' = CFStringAscii_new(CFConstantStringClassReference, array,
                                     ascii_len(INPUT))
    /\ pc' = "link_section"
    /\ UNCHANGED <<s, INPUT, out, iter, written, array, section,
                   cfstring_ptr, nsstring>>

\* Mutant of NewUtf16: the Utf16 branch builds the Ascii struct.
NewUtf16_AsAscii ==
    /\ pc = "CFStringUtf16_new"
    /\ CFSTRING' = CFStringAscii_new(CFConstantStringClassReference, array,
                                     utf16_len(out, written))
    /\ pc' = "link_section"
    /\ UNCHANGED <<s, INPUT, out, iter, written, array, section,
                   cfstring_ptr, nsstring>>

\* The initializer of static CFSTRING in the Utf16 branch.
NewUtf16 ==
    /\ pc = "CFStringUtf16_new"
    /\ CFSTRING' = CFStringUtf16_new(CFConstantStringClassReference, array,
                                     utf16_len(out, written))
    /\ pc' = "link_section"
    /\ UNCHANGED <<s, INPUT, out, iter, written, array, section,
                   cfstring_ptr, nsstring>>

\* #[link_section = "__DATA,__cfstring,regular"] static CFSTRING.
Place ==
    /\ pc = "link_section"
    /\ section' = Append(section, CFSTRING)
    /\ pc' = "as_ptr"
    /\ UNCHANGED <<s, INPUT, out, iter, written, array, CFSTRING,
                   cfstring_ptr, nsstring>>

\* CFSTRING.as_ptr(): the value of the block, bound to cfstring_ptr.
AsPtr ==
    /\ pc = "as_ptr"
    /\ cfstring_ptr' = Len(section)
    /\ pc' = "from_ptr"
    /\ UNCHANGED <<s, INPUT, out, iter, written, array, CFSTRING, section,
                   nsstring>>

\* NSString::from_ptr(cfstring_ptr as _): the macro's value.
FromPtr ==
    /\ pc = "from_ptr"
    /\ nsstring' = cfstring_ptr
    /\ pc' = "done"
    /\ UNCHANGED <<s, INPUT, out, iter, written, array, CFSTRING, section,
                   cfstring_ptr>>

Next ==
    \/ Trim
    \/ Classify
    \/ Utf16Loop
    \/ Utf16LoopExit
    \/ AsciiArray
    \/ Utf16Array
    \/ NewAscii
    \/ NewUtf16
    \/ Place
    \/ AsPtr
    \/ FromPtr

Spec == Init /\ [][Next]_vars

\* Const evaluation and the macro's straight-line code run to their end.
FairSpec == Init /\ [][Next]_vars /\ WF_vars(Next)

----------------------------------------------------------------------------
(* What the properties below are stated with.                              *)

\* The bytes of the macro's argument.
SourceBytes == as_bytes(s)

\* A byte sequence ends in a zero byte.
EndsInNul(b) == Len(b) > 0 /\ b[Len(b)] = 0

\* A sequence without its last element.
Front(b) == SubSeq(b, 1, Len(b) - 1)

\* The trimmed text as the documentation states it: the last byte removed
\* exactly when it is zero.
Trimmed(b) == IF EndsInNul(b) THEN Front(b) ELSE b

\* The UTF-16 units of one scalar: itself up to U+FFFF, else the pair.
Units16(c) ==
    IF c <= 65535 THEN <<c>>
    ELSE <<55296 + ((c - 65536) \div 1024), 56320 + ((c - 65536) % 1024)>>

RECURSIVE Utf16Of(_)
\* The units of a text: the units of its scalars, in order.
Utf16Of(str) ==
    IF str = <<>> THEN <<>> ELSE Units16(Head(str)) \o Utf16Of(Tail(str))

\* The number of UTF-8 bytes of one scalar.
ByteLen(c) == IF c < 128 THEN 1 ELSE IF c < 2048 THEN 2
              ELSE IF c < 65536 THEN 3 ELSE 4

RECURSIVE ByteLenOf(_)
\* The number of UTF-8 bytes of a text.
ByteLenOf(str) ==
    IF str = <<>> THEN 0 ELSE ByteLen(Head(str)) + ByteLenOf(Tail(str))

RECURSIVE DecodeUtf16(_)
\* The text of a sequence of UTF-16 units; an unpaired surrogate reads as
\* U+FFFD.
DecodeUtf16(u) ==
    IF u = <<>> THEN <<>>
    ELSE IF /\ u[1] \in 55296..56319
            /\ Len(u) >= 2
            /\ u[2] \in 56320..57343
         THEN <<65536 + (u[1] - 55296) * 1024 + (u[2] - 56320)>>
              \o DecodeUtf16(SubSeq(u, 3, Len(u)))
         ELSE IF u[1] \in 55296..57343
              THEN <<65533>> \o DecodeUtf16(Tail(u))
              ELSE <<u[1]>> \o DecodeUtf16(Tail(u))

\* The content of a descriptor: the first length elements of its buffer.
Content(d) == SubSeq(d.data, 1, d.length)

\* The text a descriptor reads back as.
to_string(d) ==
    IF d.variant = "Ascii" THEN Content(d) ELSE DecodeUtf16(Content(d))

\* The descriptor built step by step is the value of the macro's block.
StepwiseIsBlockValue == CFSTRING # NoCFString => CFSTRING = cfstring_of(s)

\* A descriptor has been built.
Built == CFSTRING # NoCFString

\* The Utf16 branch has been entered.
InUtf16 == pc \in {"UTF16_FULL", "UTF16_ARRAY", "CFStringUtf16_new"}
           \/ CFSTRING.variant = "Utf16"

----------------------------------------------------------------------------
(* The properties.                                                         *)

\* C1 (round trip): the descriptor the macro returns reads back as the
\* argument without one trailing NUL: interior NULs and chars that need a
\* surrogate pair come back unchanged.
C1_RoundTrip ==
    pc = "done" => to_string(section[nsstring]) = Trimmed(s)

\* C1 witness: a finished expansion whose argument has an interior NUL, a
\* char above U+FFFF and a trailing NUL.
C1_Witness ==
    /\ pc = "done"
    /\ s = <<0, 129408, 0>>
    /\ to_string(section[nsstring]) = <<0, 129408>>

\* C2 (variant selection): the descriptor is the Ascii one exactly when every
\* byte of the trimmed argument is below 0x80, and the Utf16 one exactly when
\* some byte is 0x80 or more.
C2_VariantSelection ==
    Built =>
        LET t == Trimmed(SourceBytes) IN
        /\ CFSTRING.variant = "Ascii" <=> \A i \in 1..Len(t) : t[i] < 128
        /\ CFSTRING.variant = "Utf16" <=> \E i \in 1..Len(t) : t[i] >= 128

\* C2 witness: the argument "\0" selects Ascii, with nothing left of it.
C2_Witness ==
    /\ pc = "done"
    /\ s = <<0>>
    /\ CFSTRING.variant = "Ascii"
    /\ CFSTRING.length = 0

\* C3 as stated (idempotent trimming for every text T): the descriptor of T
\* followed by a zero byte is the descriptor of T.
C3_AnyText ==
    pc = "done" => cfstring_of(Append(s, 0)) = section[nsstring]

\* C3 amended: for every text T that does not itself end in a zero byte, the
\* descriptor of T followed by a zero byte is the descriptor of T: the same
\* variant, length and buffer.
C3_IdempotentTrimming ==
    pc = "done" /\ ~EndsInNul(SourceBytes) =>
        cfstring_of(Append(s, 0)) = section[nsstring]

\* C3 witness: a text with an interior NUL and a non-ASCII last char, whose
\* descriptor is the one of the same text followed by NUL.
C3_Witness ==
    /\ pc = "done"
    /\ s = <<97, 0, 228>>
    /\ section[nsstring].length = 3
    /\ cfstring_of(<<97, 0, 228, 0>>).length = 3

\* C4 (length exclusion): the length of a descriptor is one less than the
\* size of its buffer; for Ascii it is the byte length of the trimmed
\* argument, for Utf16 the count of units the loop wrote, which is the number
\* of UTF-16 units of the trimmed text.
C4_LengthExclusion ==
    Built =>
        /\ Len(CFSTRING.data) = CFSTRING.length + 1
        /\ CFSTRING.variant = "Ascii" =>
               CFSTRING.length = Len(Trimmed(SourceBytes))
        /\ CFSTRING.variant = "Utf16" =>
               /\ CFSTRING.length = written
               /\ CFSTRING.length = Len(Utf16Of(Trimmed(s)))

\* C4 witness: U+1F980 followed by NUL gives length 2 and a buffer of 3.
C4_Witness ==
    /\ pc = "done"
    /\ s = <<129408, 0>>
    /\ CFSTRING.length = 2
    /\ Len(CFSTRING.data) = 3

\* C5 (exactly one terminator): the buffer is the content (the trimmed bytes
\* for Ascii, the units written for Utf16) followed by one zero at index
\* length; when the argument ends in NUL the buffer is no longer than the
\* argument itself, its NUL being the terminator.
C5_OneTerminator ==
    Built =>
        /\ CFSTRING.data =
               (IF CFSTRING.variant = "Ascii" THEN Trimmed(SourceBytes)
                ELSE SubSeq(out, 1, written)) \o <<0>>
        /\ Len(CFSTRING.data) = CFSTRING.length + 1
        /\ CFSTRING.data[CFSTRING.length + 1] = 0
        /\ EndsInNul(SourceBytes) =>
               CFSTRING.data = (IF CFSTRING.variant = "Ascii" THEN SourceBytes
                                ELSE Utf16Of(s))

\* C5 witness: "a\0\0" keeps one NUL as content and gets one terminator.
C5_Witness ==
    /\ pc = "done"
    /\ s = <<97, 0, 0>>
    /\ CFSTRING.data = <<97, 0, 0>>
    /\ CFSTRING.length = 2

\* C6 (trimmer): INPUT is the argument's bytes without the last byte exactly
\* when that byte is zero; at most one byte goes, the bytes kept stay at their
\* index, and the empty argument stays empty.
C6_Trimmer ==
    pc # "trim_trailing_nul" =>
        LET b == SourceBytes IN
        /\ INPUT = (IF EndsInNul(b) THEN Front(b) ELSE b)
        /\ Len(INPUT) >= Len(b) - 1
        /\ \A i \in 1..Len(INPUT) : INPUT[i] = b[i]
        /\ b = <<>> => INPUT = <<>>

\* C6 witness: of two trailing NULs one is kept, and the interior NUL stays
\* at its index.
C6_Witness ==
    /\ pc = "is_ascii"
    /\ s = <<0, 0, 0>>
    /\ INPUT = <<0, 0>>

\* The place in out (0-based) of the units of the k-th char of a text.
UnitOffset(str, k) == Len(Utf16Of(SubSeq(str, 1, k - 1)))

\* C7 (surrogate pairs): the two units written for a char c above U+FFFF are
\* high = 0xD800 + ((c - 0x10000) >> 10) and low = 0xDC00 + ((c - 0x10000) &
\* 0x3FF), within the surrogate ranges, and they give c back.
C7_SurrogatePairs ==
    LET t == Trimmed(s) IN
    \A k \in 1..Len(t) :
        (t[k] >= 65536 /\ UnitOffset(t, k) + 2 <= written) =>
            LET high == out[UnitOffset(t, k) + 1]
                low  == out[UnitOffset(t, k) + 2]
            IN /\ high = 55296 + ((t[k] - 65536) \div 1024)
               /\ low = 56320 + ((t[k] - 65536) % 1024)
               /\ high \in 55296..56319
               /\ low \in 56320..57343
               /\ 65536 + (high - 55296) * 1024 + (low - 56320) = t[k]

\* C7 witness: U+1F980 has been written as 0xD83E, 0xDD80.
C7_Witness ==
    /\ pc = "UTF16_FULL"
    /\ s = <<97, 129408>>
    /\ written = 3
    /\ out[2] = 55358
    /\ out[3] = 56704

\* C8 (ordering): at every point of the loop the units written are the units
\* of the chars decoded so far, in source order, one for a char up to U+FFFF
\* and high then low for a char above; after the loop they are the units of
\* the whole trimmed text.
C8_Ordering ==
    InUtf16 =>
        LET t == Trimmed(s) IN
        /\ written <= Len(out)
        /\ \E k \in 0..Len(t) :
               /\ ByteLenOf(SubSeq(t, 1, k)) = Len(INPUT) - Len(iter)
               /\ SubSeq(out, 1, written) = Utf16Of(SubSeq(t, 1, k))
        /\ pc # "UTF16_FULL" => SubSeq(out, 1, written) = Utf16Of(t)

\* C8 witness: U+00E4, U+1F980, U+00E4 came out as E4, D83E, DD80, E4.
C8_Witness ==
    /\ pc = "UTF16_ARRAY"
    /\ s = <<228, 129408, 228>>
    /\ SubSeq(out, 1, written) = <<228, 55358, 56704, 228>>

\* C9 (buffer bound): no write of the loop is out of the buffer of
\* INPUT.len() units; the count written never exceeds the bytes consumed; the
\* loop ends with every byte consumed; the descriptor's content is the first
\* written units of the buffer.
C9_BufferBound ==
    /\ pc # "compile_error"
    /\ InUtf16 =>
           /\ Len(out) = Len(INPUT)
           /\ written <= Len(INPUT) - Len(iter)
           /\ pc # "UTF16_FULL" => iter = <<>>
    /\ CFSTRING.variant = "Utf16" =>
           /\ CFSTRING.length = written
           /\ Content(CFSTRING) = SubSeq(out, 1, written)

\* C9 witness: in the loop, both units of a pair written after a one-byte
\* char, with bytes still to come.
C9_Witness ==
    /\ pc = "UTF16_FULL"
    /\ s = <<97, 129408, 228>>
    /\ written = 3
    /\ Len(INPUT) - Len(iter) = 5
    /\ iter # <<>>

\* The pipeline stage that runs next: 1 Trimmer, 2 Classifier, 3 Transcoder,
\* 4 Struct Builder, 5 Placement Emitter, 6 the terminal state.
Stage(p) ==
    CASE p = "trim_trailing_nul" -> 1
      [] p = "is_ascii" -> 2
      [] p = "UTF16_FULL" -> 3
      [] p \in {"ASCII_ARRAY", "UTF16_ARRAY", "CFStringAscii_new",
                "CFStringUtf16_new"} -> 4
      [] p \in {"link_section", "as_ptr", "from_ptr"} -> 5
      [] p = "done" -> 6
      [] OTHER -> 0

\* One step of the pipeline keeps to the order of the stages: the same stage
\* or the next one, the Transcoder skipped exactly when the trimmed text is
\* ASCII, only the Transcoder's loop at the same place twice, and a
\* descriptor placed only by the Placement Emitter.
C10_Step ==
    /\ Stage(pc) # 0 /\ Stage(pc') # 0
    /\ Stage(pc') \in {Stage(pc), Stage(pc) + 1}
       \/ (Stage(pc) = 2 /\ Stage(pc') = 4 /\ is_ascii(INPUT))
    /\ Stage(pc) = 2 /\ is_ascii(INPUT) => Stage(pc') = 4
    /\ Stage(pc') = 3 => ~is_ascii(INPUT')
    /\ pc' = pc => pc = "UTF16_FULL"
    /\ section' # section =>
           /\ Stage(pc) = 5
           /\ section = <<>>
           /\ Len(section') = 1

\* The terminal state: one descriptor in the section, of the variant the
\* classifier chose, and the returned pointer refers to it.
C10_Terminal ==
    pc = "done" =>
        /\ Len(section) = 1
        /\ section[1].variant = (IF is_ascii(INPUT) THEN "Ascii" ELSE "Utf16")
        /\ nsstring = 1
        /\ cfstring_ptr = nsstring

====
